---------------------------- MODULE Spec2Model ----------------------------
(***************************************************************************)
(* The frame pipeline of the raytracer: RaytracingApp::update (app.rs),    *)
(* the paint callback (render.rs RaytracingApp::paint), the Raytracer's    *)
(* GPU resources and passes (render.rs), the Camera (camera.rs) and the    *)
(* change flags of Settings and Scene (settings.rs, scene.rs, util.rs).    *)
(*                                                                         *)
(* Spec runs update() and the paint callback one after the other, as the   *)
(* thread of eframe's native backend does.  ThreadedSpec runs them as two  *)
(* actors that meet at the renderer and data mutexes.  ConstructionSpec is *)
(* Raytracer::new step by step against a driver whose answers are not      *)
(* known in advance; SunSpec is the sun direction of the world settings;   *)
(* SceneSpec is the Scene with its objects under the operations of its     *)
(* window and the upload of the scene block (Spec keeps the change flags   *)
(* of the scene only).                                                     *)
(*                                                                         *)
(* Screen sizes are f32 pairs in the source.  They are kept here in fixed  *)
(* point: a coordinate c stands for c / SubPx pixels, so that the          *)
(* float -> i32 cast of screen_sized_texture is a real truncation.         *)
(***************************************************************************)
EXTENDS Integers, Sequences, FiniteSets, TLC

\* ------------------------------------------------------------------ bounds
SubPx == 2
MaxCoord == 4
NumPoses == 2
\* frame_index is a u32; the modulus of the counter is scaled down from
\* 2^32, which is outside the model checker's integers
FrameIndexModulus == 8
\* the fixed-point value of 1.0 in the sun direction
FixedOne == 1000
\* the cap on the number of objects (new_object, duplicate_object) and the
\* length of the arrays of the scene block (fill_50): 50 in the source,
\* scaled down
MaxObjects == 2
\* duplicate_object appends " copy" to a name; the number of times a name
\* carries the suffix is capped
MaxNameCopies == 1

\* ------------------------------------------------------- program constants
DEFAULT_FOV_DEG == 70

\* widths from one pixel up in steps of 1/SubPx pixel; one pixel high
Coords == SubPx..MaxCoord
Sizes == Coords \X {SubPx}
Fovs == {DEFAULT_FOV_DEG, DEFAULT_FOV_DEG + 20}
Inputs == {"none", "move", "reset"}
\* "other": any widget of the window whose value the model does not keep
\* (colours, sun, render mode, samples, bounces, highlight)
SettingsEdits == {"none", "lock_camera", "accumulate", "fov", "other"}
SceneEdits == {"none", "edit"}
UndefinedFills == {"zero", "garbage"}
\* clip rectangles without area
ZeroAreaSizes == {<<0, SubPx>>, <<SubPx, 0>>}
\* angles in eighths of a turn
EighthTurns == 0..7

\* ------------------------------------------------------------- GPU objects
TexNames ==
    {"ray_dirs_texture", "noise_texture_0", "noise_texture_1",
     "accumulation_texture_0", "accumulation_texture_1"}

GlObjects ==
    {"clear_fbo",
     "ray_dirs_fbo", "ray_dirs_texture", "ray_dirs_program", "ray_dirs_verts",
     "noise_fbo", "noise_texture_0", "noise_texture_1", "noise_program",
     "noise_verts",
     "accumulation_fbo", "accumulation_texture_0", "accumulation_texture_1",
     "program", "verts",
     "final_program", "final_verts"}

\* the four programs in the order Raytracer::new compiles them
Programs == <<"ray_dirs_program", "noise_program", "program", "final_program">>

\* what the driver answers for a program: both shaders compile and the
\* program links, a shader does not compile, the program does not link
ShaderOutcomes == {"ok", "compile_failed", "link_failed"}

VARIABLES
    \* the GL driver: the outcome of compile_shaders for each program, and
    \* whether each framebuffer ("none": the default one) is complete
    driver,
    \* Raytracer::new so far: the programs compile_shaders was called for,
    \* the programs that are linked, the framebuffers whose status was read
    built,
    \* the sun angles of the world settings and the last sun_dir upload
    sun,
    \* the Scene of the state bundle with its objects, and the scene block
    \* of the accumulation program's uniforms
    scene, scene_block,
    \* Raytracer
    scr_size, first_frame, rendering_to_texture_0, frame_index, force_scr_size,
    \* GL context: texture images, delete calls per object, the bindings
    \* (active texture unit, texture bound to each unit, bound framebuffer,
    \* colour attachment 0 of each framebuffer object)
    tex, deleted, bind,
    \* PersistentData behind the data mutex, and RaytracingApp::default_data
    data, default_data,
    \* the focus flag captured by the paint callback; position of the paint
    \* callback ("ui": none queued or running)
    ui_focused, pc,
    \* the owners of the two mutexes of RaytracingApp, and the position of
    \* update() where the UI runs as an actor of its own
    data_mutex, renderer_mutex, ui_pc,
    \* observation of the run (not read by any action's guard or effect on
    \* the program state)
    sig, passes, draws, uploads, acc_log, last, run, on_track, ray

vars ==
    <<driver, built, sun, scene, scene_block,
      scr_size, first_frame, rendering_to_texture_0, frame_index,
      force_scr_size, tex, deleted, bind, data, default_data, ui_focused, pc,
      data_mutex, renderer_mutex, ui_pc,
      sig, passes, draws, uploads, acc_log, last, run, on_track, ray>>

renderer_vars ==
    <<scr_size, first_frame, rendering_to_texture_0, frame_index,
      force_scr_size>>

mutex_vars == <<data_mutex, renderer_mutex>>

\* what no frame changes
setup_vars == <<driver, built, sun, scene, scene_block>>

\* the positions of the callback at which it has locked both mutexes
CallbackBody ==
    {"set_scr_size", "noise", "accumulation", "final", "camera", "invalidate"}

\* ------------------------------------------------------------------ camera
perspective_fov(fov, size) == <<fov, size[1], size[2]>>

\* the assertions of glm::perspective_fov on its width and height: the call
\* panics unless both are greater than zero
perspective_fov_asserts(size) == size[1] > 0 /\ size[2] > 0

look_at(pose) == <<pose>>

inverse(m) == <<"inv", m>>

CameraNew(size) ==
    [vertical_fov |-> DEFAULT_FOV_DEG,
     pose |-> 0,
     proj |-> perspective_fov(DEFAULT_FOV_DEG, size),
     inv_proj |-> inverse(perspective_fov(DEFAULT_FOV_DEG, size)),
     view |-> look_at(0),
     inv_view |-> inverse(look_at(0)),
     scr_size |-> size,
     recalculate_ray_dirs |-> FALSE]

recalc_proj(c) ==
    [c EXCEPT !.proj = perspective_fov(c.vertical_fov, c.scr_size),
              !.inv_proj = inverse(perspective_fov(c.vertical_fov, c.scr_size)),
              !.recalculate_ray_dirs = TRUE]

recalc_view(c) ==
    [c EXCEPT !.view = look_at(c.pose),
              !.inv_view = inverse(look_at(c.pose)),
              !.recalculate_ray_dirs = TRUE]

set_fov(c, new_fov) ==
    IF new_fov = c.vertical_fov
    THEN c
    ELSE recalc_proj([c EXCEPT !.vertical_fov = new_fov])

camera_set_scr_size(c, new_scr_size) ==
    recalc_proj([c EXCEPT !.scr_size = new_scr_size])

\* Camera::update: the camera after the input and whether it moved.
camera_update(c, input) ==
    CASE input = "reset" ->
           [camera |-> recalc_view([c EXCEPT !.pose = 0]), moved |-> TRUE]
      [] input = "move" ->
           [camera |-> recalc_view([c EXCEPT !.pose = (c.pose + 1) % NumPoses]),
            moved |-> TRUE]
      [] OTHER -> [camera |-> c, moved |-> FALSE]

\* ------------------------------------------------- settings, scene, flags
SettingsResponseDefault ==
    [focused |-> FALSE, screenshot |-> FALSE, save_data |-> FALSE,
     clear_data |-> FALSE, changed |-> TRUE]

SceneResponseDefault == [focused |-> FALSE, changed |-> TRUE]

\* Reset::reset: *self = Self::default()
Reset(self, default) == default

SettingsDefault ==
    [lock_camera |-> FALSE, accumulate |-> TRUE, fov |-> DEFAULT_FOV_DEG,
     response |-> SettingsResponseDefault]

SceneDefault == [response |-> SceneResponseDefault]

PersistentDataNew(size) ==
    [settings |-> SettingsDefault, camera |-> CameraNew(size),
     scene |-> SceneDefault]

\* Settings::window: one pass of the settings window in which the widget
\* named by edit was changed, a widget had keyboard focus or not, and the
\* "Clear all data" dialog was confirmed or not.  Every changed widget ors
\* its changed() into response.changed (UpdateResponse::update_response).
SettingsWindow(s, edit, new_fov, focus, clear) ==
    LET v == CASE edit = "lock_camera" -> [s EXCEPT !.lock_camera = ~@]
               [] edit = "accumulate" -> [s EXCEPT !.accumulate = ~@]
               [] edit = "fov" -> [s EXCEPT !.fov = new_fov]
               [] OTHER -> s
    IN  [v EXCEPT !.response.focused = @ \/ focus,
                  !.response.changed = @ \/ (edit # "none"),
                  !.response.clear_data = @ \/ clear]

\* Scene::window as far as the frame reads it: one pass of the scene window
\* in which an event that calls set_changed(true) happened ("edit") or not
SceneWindow(s, edit, focus) ==
    [s EXCEPT !.response.focused = @ \/ focus,
              !.response.changed = @ \/ (edit # "none")]

\* ------------------------------------------------------------ scene objects
\* the per-object arrays of Scene (scene.rs 18-35)
ArrayNames ==
    {"name", "ty", "position", "rotation", "scale",
     "mat_ty", "mat_color", "mat_roughness", "mat_emissive_strength",
     "mat_transmissive_opacity", "mat_transmissive_ior",
     "transform", "inv_transform", "normal_transform"}

\* the arrays of Scene that apply_uniforms passes through fill_50 (it also
\* names mat_ior and mat_specular, which Scene does not have)
UploadedArrays ==
    {"ty", "mat_ty", "mat_color", "mat_roughness", "mat_emissive_strength",
     "mat_transmissive_opacity",
     "transform", "inv_transform", "normal_transform"}

\* a name is "Sphere" followed by this many " copy"
Names == 0..MaxNameCopies

\* one event of the scene window per pass.  The two type menus are left
\* out: they are written with selectable_values!, whose pattern (util.rs
\* 6-22) the two uses in scene.rs do not match.
SceneOps ==
    {"none", "select", "new", "duplicate",
     "rename", "rename_cancel", "rename_confirm",
     "delete", "delete_cancel", "delete_confirm",
     "transform", "material"}

\* Scene::default (derived): no objects.  raised and op are observation:
\* whether the last pass of the window called set_changed(true), and the
\* event of that pass.
EmptyScene ==
    [selected |-> 0,
     arrays |-> [a \in ArrayNames |-> <<>>],
     rename_modal |-> FALSE,
     delete_modal |-> FALSE,
     response |-> SceneResponseDefault,
     raised |-> FALSE,
     op |-> "none"]

len(s) == Len(s.arrays["name"])

\* the values new_object pushes, as tokens: 0 is the type's default (the
\* zero vector, the name without suffix), 1 the other values (Sphere, the
\* unit scale, Solid, the grey of 0.9, roughness 0.5, ..., the identity)
pushed_by_new(a) == IF a \in {"name", "position", "rotation"} THEN 0 ELSE 1

new_object_uncapped(s) ==
    [s EXCEPT
        !.arrays = [a \in ArrayNames |-> Append(@[a], pushed_by_new(a))],
        !.selected = len(s) + 1 - 1]

new_object(s) ==
    IF len(s) >= MaxObjects
    THEN s
    ELSE [s EXCEPT
             !.arrays = [a \in ArrayNames |-> Append(@[a], pushed_by_new(a))],
             !.selected = len(s) + 1 - 1]

\* name.push_str(" copy")
push_str_copy(name) == name + 1

duplicate_object(s) ==
    IF len(s) < 1 \/ len(s) >= MaxObjects
    THEN s
    ELSE LET i == s.selected + 1
         IN  [s EXCEPT
                 !.arrays =
                     [a \in ArrayNames |->
                         Append(@[a], IF a = "name"
                                      THEN push_str_copy(@[a][i])
                                      ELSE @[a][i])],
                 !.selected = len(s) + 1 - 1]

\* Vec::remove
remove(v, i) == SubSeq(v, 1, i - 1) \o SubSeq(v, i + 1, Len(v))

saturating_sub(a, b) == IF a >= b THEN a - b ELSE 0

delete_object_but_one(s) ==
    IF len(s) < 1
    THEN s
    ELSE LET i == s.selected + 1
         IN  [s EXCEPT
                 !.arrays = [a \in ArrayNames |->
                                IF a = "normal_transform"
                                THEN @[a]
                                ELSE remove(@[a], i)],
                 !.selected = saturating_sub(s.selected, 1)]

delete_object_keeps_selected(s) ==
    IF len(s) < 1
    THEN s
    ELSE LET i == s.selected + 1
         IN  [s EXCEPT !.arrays = [a \in ArrayNames |-> remove(@[a], i)]]

delete_object(s) ==
    IF len(s) < 1
    THEN s
    ELSE LET i == s.selected + 1
         IN  [s EXCEPT
                 !.arrays = [a \in ArrayNames |-> remove(@[a], i)],
                 !.selected = saturating_sub(s.selected, 1)]

\* pos * rot * scl of a position, a rotation and a scale token, as a token
\* of the matrix: 1 is the identity (no translation, no rotation, unit
\* scale), 0 the zero matrix
transform_of(p, r, sc) == 1 + p + 2 * r + 4 * (sc - 1)

\* rot * inverse(scl)
normal_transform_of(r, sc) == 1 + r + 2 * (sc - 1)

\* the matrices of every object from its position, rotation and scale; the
\* token of inverse(mat) is the token of mat
recalc_transforms(s) ==
    LET A == s.arrays
        mat(i) == transform_of(A["position"][i], A["rotation"][i],
                               A["scale"][i])
    IN  [s EXCEPT
            !.arrays["transform"] = [i \in 1..len(s) |-> mat(i)],
            !.arrays["inv_transform"] = [i \in 1..len(s) |-> mat(i)],
            !.arrays["normal_transform"] =
                [i \in 1..len(s) |->
                    normal_transform_of(A["rotation"][i], A["scale"][i])]]

set_changed(s, changed) ==
    [s EXCEPT !.response.changed = @ \/ changed,
              !.raised = @ \/ changed]

update_response(s, has_focus, changed) ==
    set_changed([s EXCEPT !.response.focused = @ \/ has_focus], changed)

\* whether the widget of the event is shown in a pass over scene s
SceneOpShown(s, op) ==
    CASE op \in {"none", "new"} -> TRUE
      [] op \in {"rename_cancel", "rename_confirm"} ->
             len(s) > 0 /\ s.rename_modal
      [] op \in {"delete_cancel", "delete_confirm"} ->
             len(s) > 0 /\ s.delete_modal
      [] OTHER -> len(s) > 0

\* Scene::window with its objects: one pass in which the event op happened,
\* on entry i of the selector for "select" and with new_name typed into
\* the rename dialog for "rename_confirm".  A dragged position and a moved
\* roughness slider take the other of two values.
SceneObjectsWindow(s0, op, i, new_name, has_focus) ==
    LET s == [s0 EXCEPT !.raised = FALSE, !.op = op]
        modal_open == s.rename_modal \/ s.delete_modal
        sel == s.selected + 1
    IN  CASE op = "select" ->
                 update_response(
                     [s EXCEPT !.selected = IF ~modal_open THEN i ELSE @],
                     has_focus, i # s.selected)
          [] op = "new" -> set_changed(new_object(s), TRUE)
          [] op = "duplicate" -> duplicate_object(s)
          [] op = "rename" ->
                 [s EXCEPT !.rename_modal = @ \/ ~modal_open]
          [] op = "rename_cancel" -> [s EXCEPT !.rename_modal = FALSE]
          [] op = "rename_confirm" ->
                 set_changed(
                     [s EXCEPT !.rename_modal = FALSE,
                               !.response.focused = @ \/ has_focus,
                               !.arrays["name"][sel] = new_name],
                     TRUE)
          [] op = "delete" ->
                 [s EXCEPT !.delete_modal = @ \/ ~modal_open]
          [] op = "delete_cancel" -> [s EXCEPT !.delete_modal = FALSE]
          [] op = "delete_confirm" ->
                 set_changed(
                     delete_object([s EXCEPT !.delete_modal = FALSE]), TRUE)
          [] op = "transform" ->
                 set_changed(
                     recalc_transforms(
                         update_response(
                             [s EXCEPT !.arrays["position"][sel] = 1 - @],
                             has_focus, TRUE)),
                     TRUE)
          [] op = "material" ->
                 update_response(
                     [s EXCEPT !.arrays["mat_roughness"][sel] = 3 - @],
                     has_focus, TRUE)
          [] OTHER -> s

\* the copy into a[0..sl.len()] panics when the slice is longer than the
\* array
fill_50_panics(sl) == Len(sl) > MaxObjects

\* an array of the type's default with the slice copied to its front
fill_50(sl) == [i \in 1..MaxObjects |-> IF i <= Len(sl) THEN sl[i] ELSE 0]

\* the scene uniforms of a program that none was uploaded to
NoSceneBlock ==
    [scene_selected |-> 0,
     scene_size |-> 0,
     arrays |-> [a \in UploadedArrays |-> fill_50(<<>>)]]

\* ------------------------------------------------------------- GL bindings
TextureUnits == 0..2

Framebuffers == {"clear_fbo", "ray_dirs_fbo", "noise_fbo", "accumulation_fbo"}

active_texture(b, unit) == [b EXCEPT !.active = unit]

\* binds to the active unit; "none" unbinds
bind_texture(b, texture) == [b EXCEPT !.units[b.active] = texture]

\* "none" binds the default framebuffer
bind_framebuffer(b, fbo) == [b EXCEPT !.framebuffer = fbo]

\* framebuffer_texture: colour attachment 0 of the bound framebuffer object
framebuffer_texture(b, texture) ==
    IF b.framebuffer \in Framebuffers
    THEN [b EXCEPT !.attachment[b.framebuffer] = texture]
    ELSE b

\* the texture a draw call renders into
draw_target(b) ==
    IF b.framebuffer \in Framebuffers THEN b.attachment[b.framebuffer]
    ELSE "screen"

\* the textures a draw call samples, its program's samplers reading the
\* given units
draw_sampled(b, samplers) == {b.units[u] : u \in samplers} \ {"none"}

\* the bindings Raytracer::new leaves behind
BindNew ==
    [active |-> 0,
     units |-> [u \in TextureUnits |-> "none"],
     framebuffer |-> "none",
     attachment |-> [f \in Framebuffers |->
                       CASE f = "ray_dirs_fbo" -> "ray_dirs_texture"
                         [] f = "noise_fbo" -> "noise_texture_0"
                         [] f = "accumulation_fbo" -> "accumulation_texture_0"
                         [] OTHER -> "none"]]

\* ---------------------------------------------------------------- textures
Trunc(x) == x \div SubPx

\* screen_sized_texture: tex_image_2d with no data; the image is undefined
screen_sized_texture(size, fill) ==
    [dims |-> <<Trunc(size[1]), Trunc(size[2])>>, kind |-> fill, src |-> <<>>]

\* a reallocation that leaves one of the five textures at its old size
realloc_textures_but_one(t, size, fill) ==
    [n \in TexNames |->
        IF n = "accumulation_texture_1" THEN t[n]
        ELSE screen_sized_texture(size, fill)]

\* Raytracer::realloc_textures
realloc_textures(t, size, fill) ==
    [n \in TexNames |-> screen_sized_texture(size, fill)]

\* a clear that also zeroes the ray-direction texture
clear_textures_all(t) ==
    [n \in TexNames |-> [t[n] EXCEPT !.kind = "zero", !.src = <<>>]]

\* a clear that leaves the accumulation textures alone
clear_textures_noise_only(t) ==
    [n \in TexNames |->
        IF n \in {"noise_texture_0", "noise_texture_1"}
        THEN [t[n] EXCEPT !.kind = "zero", !.src = <<>>]
        ELSE t[n]]

clear_textures(t) ==
    [n \in TexNames |->
        IF n \in {"noise_texture_0", "noise_texture_1",
                  "accumulation_texture_0", "accumulation_texture_1"}
        THEN [t[n] EXCEPT !.kind = "zero", !.src = <<>>]
        ELSE t[n]]

calculate_ray_dirs(t, camera, size) ==
    [t EXCEPT !["ray_dirs_texture"] =
        [@ EXCEPT !.kind = "dirs",
                  !.src = <<camera.inv_proj, camera.inv_view, size>>]]

\* a noise pass that samples the texture it draws to
NoiseReadSameSide(r0) == IF r0 THEN "noise_texture_0" ELSE "noise_texture_1"
\* an accumulation pass that samples the noise of the frame before
AccumNoisePrevious(r0) == IF r0 THEN "noise_texture_1" ELSE "noise_texture_0"

NoiseRead(r0) == IF r0 THEN "noise_texture_1" ELSE "noise_texture_0"
NoiseWrite(r0) == IF r0 THEN "noise_texture_0" ELSE "noise_texture_1"
AccumNoise(r0) == IF r0 THEN "noise_texture_0" ELSE "noise_texture_1"
\* the sampled accumulation texture chosen with the branches of the
\* attachment's choice
AccumReadSameAsTarget(r0) ==
    IF r0 THEN "accumulation_texture_0" ELSE "accumulation_texture_1"

AccumRead(r0) ==
    IF r0 THEN "accumulation_texture_1" ELSE "accumulation_texture_0"
AccumWrite(r0) ==
    IF r0 THEN "accumulation_texture_0" ELSE "accumulation_texture_1"
FinalRead(r0) ==
    IF r0 THEN "accumulation_texture_0" ELSE "accumulation_texture_1"

\* the bindings at each pass's draw call and after the pass has unbound
\* realloc_textures binds each texture in turn and unbinds none
realloc_textures_bind(b) ==
    bind_texture(
        bind_texture(
            bind_texture(
                bind_texture(bind_texture(b, "ray_dirs_texture"),
                             "noise_texture_0"),
                "noise_texture_1"),
            "accumulation_texture_0"),
        "accumulation_texture_1")

\* clear_textures attaches each of the four textures to clear_fbo in turn
clear_textures_bind(b) ==
    bind_framebuffer(
        framebuffer_texture(
            framebuffer_texture(
                framebuffer_texture(
                    framebuffer_texture(bind_framebuffer(b, "clear_fbo"),
                                        "noise_texture_0"),
                    "noise_texture_1"),
                "accumulation_texture_0"),
            "accumulation_texture_1"),
        "none")

ray_dirs_bind(b) ==
    bind_texture(bind_framebuffer(b, "ray_dirs_fbo"), "ray_dirs_texture")

ray_dirs_unbind(b) == bind_texture(bind_framebuffer(b, "none"), "none")

noise_bind(b, r0) ==
    framebuffer_texture(
        bind_framebuffer(
            bind_texture(active_texture(b, 0), NoiseRead(r0)),
            "noise_fbo"),
        NoiseWrite(r0))

noise_unbind(b) == bind_texture(bind_framebuffer(b, "none"), "none")

accumulation_bind(b, r0) ==
    LET b0 == bind_texture(active_texture(b, 0), "ray_dirs_texture")
        b1 == bind_texture(active_texture(b0, 1), AccumNoise(r0))
        b2 == bind_texture(active_texture(b1, 2), AccumRead(r0))
    IN  framebuffer_texture(bind_framebuffer(b2, "accumulation_fbo"),
                            AccumWrite(r0))

accumulation_unbind(b) == bind_texture(bind_framebuffer(b, "none"), "none")

final_bind(b, r0) == bind_texture(active_texture(b, 0), FinalRead(r0))

final_unbind(b) == bind_texture(b, "none")

\* the texture units each program's sampler uniforms are set to
NoiseSamplers == {0}
AccumulationSamplers == {0, 1, 2}
FinalSamplers == {0}
\* calculate_ray_dirs sets no sampler uniform of ray_dirs_program
RayDirsSamplers == {}

Draw(pass, b, samplers) ==
    [pass |-> pass, sampled |-> draw_sampled(b, samplers),
     target |-> draw_target(b)]

\* Raytracer::destroy: the objects it deletes
DestroyList ==
    {"clear_fbo",
     "ray_dirs_fbo", "ray_dirs_texture", "ray_dirs_program", "ray_dirs_verts",
     "accumulation_fbo", "accumulation_texture_0", "accumulation_texture_1",
     "program", "verts",
     "final_program", "final_verts"}

\* an apply_uniforms that also uploads the inverse matrices
apply_uniforms_with_matrices(first, d) ==
    {"common", "camera", "inv_proj", "inv_view"}
    \cup (IF first \/ d.scene.response.changed THEN {"scene"} ELSE {})
    \cup (IF first \/ d.settings.response.changed THEN {"world"} ELSE {})

\* sampler uniforms that are set in every frame
sampler_uniforms_always(first) == {"samplers"}

\* Raytracer::paint, lines 470-483: the sampler uniforms of the main
\* program (ray_dirs, noise, image)
sampler_uniforms(first) == IF first THEN {"samplers"} ELSE {}

\* calculate_ray_dirs, lines 384-397: the uniforms of ray_dirs_program
ray_dirs_uniforms == {"ray_dirs_common", "inv_proj", "inv_view"}

\* apply_uniforms: the uniform blocks uploaded to the main program
\* ("common": scr_size and frame_index; "camera": camera_pos and camera_dir)
apply_uniforms(first, d) ==
    {"common", "camera"}
    \cup (IF first \/ d.scene.response.changed THEN {"scene"} ELSE {})
    \cup (IF first \/ d.settings.response.changed THEN {"world"} ELSE {})

\* -------------------------------------------------------------- observation
NoLog == [ran |-> FALSE, fi |-> 0, r0 |-> FALSE, read |-> "", target |-> "",
          ray |-> ""]

NoSig == [scene |-> FALSE, settings |-> FALSE, camera |-> FALSE,
          resized |-> FALSE, request_equal |-> FALSE,
          ignored_input |-> FALSE, cleared |-> FALSE]

AnySig(s) == s.scene \/ s.settings \/ s.camera \/ s.resized

\* the ray-direction pass: stale, the screen was resized or a camera matrix
\* changed since the pass last ran; ran, the pass ran in the current frame;
\* due, stale held when the frame's camera update reached the pass
NoRay == [stale |-> FALSE, ran |-> FALSE, due |-> FALSE]

matrices(c) == <<c.proj, c.inv_proj, c.view, c.inv_view>>

\* the values of the camera, the settings and the scene, without the
\* response flags and the camera's recalculate_ray_dirs flag
SharedValues(d) ==
    <<d.camera.pose, d.camera.vertical_fov, d.camera.scr_size,
      matrices(d.camera), d.settings.lock_camera, d.settings.accumulate,
      d.settings.fov>>

\* the previous frame: none yet (ray: its ray-direction pass ran; resized:
\* its set_scr_size reallocated; noise_target, acc_target: the textures its
\* noise and accumulation passes drew to)
NoFrame == [valid |-> FALSE, first |-> FALSE, signalled |-> FALSE,
            fi |-> 0, r0 |-> FALSE, ray |-> FALSE, resized |-> FALSE,
            noise_target |-> "none", acc_target |-> "none"]

\* the target of the frame's draw call of the given pass
TargetOf(d, pass) ==
    IF \E i \in DOMAIN d : d[i].pass = pass
    THEN d[CHOOSE i \in DOMAIN d : d[i].pass = pass].target
    ELSE "none"

\* the previous frame was not the first and raised no change signal
Quiet(f) == f.valid /\ ~f.first /\ ~f.signalled

\* ------------------------------------------------------------ construction
ProgramSet == {Programs[i] : i \in DOMAIN Programs}

Drivers ==
    [shader : [ProgramSet -> ShaderOutcomes],
     complete : [Framebuffers \cup {"none"} -> BOOLEAN]]

SoundDriver ==
    [shader |-> [p \in ProgramSet |-> "ok"],
     complete |-> [f \in Framebuffers \cup {"none"} |-> TRUE]]

\* a compile_shaders without its two assertions
compile_shaders_unchecked(outcome) == TRUE

\* compile_shaders: whether it returns; it panics at the first shader that
\* does not compile and at a program that does not link
compile_shaders(outcome) == outcome = "ok"

\* gl.check_framebuffer_status(FRAMEBUFFER): the status of the framebuffer
\* that is bound when it is called
check_framebuffer_status(d, b) == d.complete[b.framebuffer]

NotBuilt == [compiled |-> <<>>, linked |-> {}, validated |-> {}]

\* Raytracer::new has returned
Built == [compiled |-> Programs, linked |-> ProgramSet, validated |-> {"none"}]

\* a texture object without an image
Unallocated == [dims |-> <<0, 0>>, kind |-> "none", src |-> <<>>]

\* the bindings of a context nothing was bound in
BindEmpty ==
    [active |-> 0,
     units |-> [u \in TextureUnits |-> "none"],
     framebuffer |-> "none",
     attachment |-> [f \in Framebuffers |-> "none"]]

\* ---------------------------------------------------------- sun direction
\* f32 arithmetic in fixed point, FixedOne standing for 1.0
fmul(a, b) == (a * b + FixedOne \div 2) \div FixedOne

fdiv(a, b) == (a * FixedOne + b \div 2) \div b

sqrt(v) ==
    CHOOSE r \in 0..(2 * FixedOne) :
        r * r <= v * FixedOne /\ v * FixedOne < (r + 1) * (r + 1)

\* the cosine of k eighths of a turn
cos(k) ==
    LET a == k % 8
        h == sqrt(FixedOne \div 2)
    IN  CASE a = 0 -> FixedOne
          [] a \in {1, 7} -> h
          [] a \in {2, 6} -> 0
          [] a \in {3, 5} -> 0 - h
          [] OTHER -> 0 - FixedOne

sin(k) == cos(k + 6)

\* a sun direction with the elevation's sine on the z axis
sun_dir_z_up(sun_rotation, sun_elevation) ==
    LET beta_cos == cos(sun_elevation)
        x == fmul(cos(sun_rotation), beta_cos)
        y == fmul(sin(sun_rotation), beta_cos)
        z == sin(sun_elevation)
        mag == sqrt(fmul(x, x) + fmul(y, y) + fmul(z, z))
    IN  <<fdiv(x, mag), fdiv(y, mag), fdiv(z, mag)>>

\* apply_uniforms, lines 705-716: the sun_dir uniform
sun_dir(sun_rotation, sun_elevation) ==
    LET beta_cos == cos(sun_elevation)
        x == fmul(cos(sun_rotation), beta_cos)
        y == sin(sun_elevation)
        z == fmul(sin(sun_rotation), beta_cos)
        mag == sqrt(fmul(x, x) + fmul(y, y) + fmul(z, z))
    IN  <<fdiv(x, mag), fdiv(y, mag), fdiv(z, mag)>>

NoUpload == [done |-> FALSE, rotation |-> 0, elevation |-> 0,
             dir |-> <<0, 0, 0>>]

\* WorldSettings::default: both angles 45 degrees; nothing uploaded yet
NoSun == [rotation |-> 1, elevation |-> 1, upload |-> NoUpload]

\* -------------------------------------------------------------------- Init
\* RaytracingApp::new with no stored data: PersistentData::new, then
\* Raytracer::new, which allocates every texture (with undefined contents)
\* and computes the ray directions once.
AppNew(size, fill) ==
    /\ driver = SoundDriver
    /\ built = Built
    /\ scr_size = size
    /\ first_frame = TRUE
    /\ rendering_to_texture_0 = TRUE
    /\ frame_index = 1
    /\ force_scr_size = FALSE
    /\ tex = calculate_ray_dirs(
                [n \in TexNames |-> screen_sized_texture(size, fill)],
                CameraNew(size), size)
    /\ deleted = [o \in GlObjects |-> 0]
    /\ bind = ray_dirs_unbind(ray_dirs_bind(BindNew))
    /\ data = PersistentDataNew(size)
    /\ default_data = PersistentDataNew(size)
    /\ ui_focused = FALSE
    /\ data_mutex = "free"
    /\ renderer_mutex = "free"
    /\ ui_pc = "idle"
    /\ sig = NoSig
    /\ passes = <<"ray_dirs">>
    /\ draws = <<Draw("ray_dirs", ray_dirs_bind(BindNew), RayDirsSamplers)>>
    /\ uploads = ray_dirs_uniforms
    /\ acc_log = NoLog
    /\ last = NoFrame
    /\ run = <<>>
    /\ on_track = TRUE
    /\ ray = NoRay
    /\ scene = new_object(EmptyScene)
    /\ scene_block = NoSceneBlock

\* the driver compiled and linked every program and every framebuffer is
\* complete
Init ==
    \E size \in Sizes, fill \in UndefinedFills :
        /\ AppNew(size, fill)
        /\ pc = "ui"
        /\ sun = NoSun

\* ------------------------------------------------------------------ actions
\* RaytracingApp::update from the settings window to the replacement of the
\* bundle on "Clear all data" (lines 100-121).  The callback also
\* captures the clip rectangle's size and the input; each is read at one
\* place of the callback only and is drawn there (SetScrSize, CameraStep).
DrawWindows ==
    /\ \E sE \in SettingsEdits, cE \in SceneEdits, new_fov \in Fovs,
          fS \in BOOLEAN, fC \in BOOLEAN, clear \in BOOLEAN :
        /\ (sE = "fov") = (new_fov # data.settings.fov)
        /\ LET settings1 ==
                   SettingsWindow(data.settings, sE, new_fov, fS, clear)
               scene1 == SceneWindow(data.scene, cE, fC)
               settings_response == settings1.response
               scene_response == scene1.response
               sig1 == [NoSig EXCEPT !.scene = (cE # "none") \/ clear,
                                     !.settings = (sE # "none") \/ clear,
                                     !.cleared = clear]
               track1 == /\ on_track
                         /\ IF Len(run) < 10 THEN ~AnySig(sig1)
                            ELSE /\ Len(run) = 10
                                 /\ sig1 = [NoSig EXCEPT !.scene = TRUE]
           IN  /\ data' = IF settings_response.clear_data
                          THEN default_data
                          ELSE [data EXCEPT !.settings = settings1,
                                            !.scene = scene1]
               /\ ui_focused' =
                      (settings_response.focused \/ scene_response.focused)
               /\ sig' = sig1
               /\ on_track' = track1
               /\ run' = IF track1 THEN run ELSE <<>>
    /\ passes' = <<>>
    /\ draws' = <<>>
    /\ uploads' = {}
    /\ UNCHANGED <<setup_vars, ray, renderer_vars, tex, deleted, bind,
                   default_data, acc_log, last>>

\* the windows and RaytracingApp::paint, which queues the paint callback
UpdateWindows ==
    /\ DrawWindows
    /\ pc' = "queued"

\* RaytracingApp::update on the thread that also runs the paint callbacks:
\* it locks data, locks and unlocks renderer for frame_index, draws the
\* windows and drops the data guard before it saves (save() writes the
\* bundle to the storage, which is not kept here) and queues the callback.
Update ==
    /\ pc = "ui"
    /\ ui_pc = "idle"
    /\ data_mutex = "free"
    /\ renderer_mutex = "free"
    /\ UpdateWindows
    /\ UNCHANGED <<mutex_vars, ui_pc>>

\* update() as an actor of its own: the call of self.data.lock(), line 95
UpdateStart ==
    /\ ui_pc = "idle"
    /\ pc \notin {"queued", "exited", "panicked"}
    /\ ui_pc' = "lock_data"
    /\ UNCHANGED <<setup_vars, renderer_vars, tex, deleted, bind, data,
                   default_data, ui_focused, pc, mutex_vars, sig, passes,
                   draws, uploads, acc_log, last, run, on_track, ray>>

\* line 95 returns with the data guard
UpdateLockData ==
    /\ ui_pc = "lock_data"
    /\ data_mutex = "free"
    /\ data_mutex' = "ui"
    /\ ui_pc' = "lock_renderer"
    /\ UNCHANGED <<setup_vars, renderer_vars, tex, deleted, bind, data,
                   default_data, ui_focused, pc, renderer_mutex, sig, passes,
                   draws, uploads, acc_log, last, run, on_track, ray>>

\* line 99: self.renderer.lock().frame_index, the guard a temporary
UpdateReadFrameIndex ==
    /\ ui_pc = "lock_renderer"
    /\ renderer_mutex = "free"
    /\ ui_pc' = "windows"
    /\ UNCHANGED <<setup_vars, renderer_vars, tex, deleted, bind, data,
                   default_data, ui_focused, pc, mutex_vars, sig, passes,
                   draws, uploads, acc_log, last, run, on_track, ray>>

\* lines 100-124 without the drop(data) of line 124
UpdateRespondKeepingGuard ==
    /\ ui_pc = "windows"
    /\ pc = "ui"
    /\ DrawWindows
    /\ \E save_data \in BOOLEAN :
          ui_pc' = IF save_data THEN "save" ELSE "paint"
    /\ UNCHANGED <<mutex_vars, pc>>

\* lines 100-124 with the data guard, dropped at line 124; save_data is the
\* flag of the settings response copied at line 103
UpdateRespond ==
    /\ ui_pc = "windows"
    /\ pc = "ui"
    /\ DrawWindows
    /\ data_mutex' = "free"
    /\ \E save_data \in BOOLEAN :
          ui_pc' = IF save_data THEN "save" ELSE "paint"
    /\ UNCHANGED <<renderer_mutex, pc>>

\* lines 127-129: save() calls self.data.lock() (line 91)
UpdateSaveLock ==
    /\ ui_pc = "save"
    /\ data_mutex = "free"
    /\ data_mutex' = "ui"
    /\ ui_pc' = "saving"
    /\ UNCHANGED <<setup_vars, renderer_vars, tex, deleted, bind, data,
                   default_data, ui_focused, pc, renderer_mutex, sig, passes,
                   draws, uploads, acc_log, last, run, on_track, ray>>

\* save() returns: its guard is a temporary of the statement
UpdateSaveDone ==
    /\ ui_pc = "saving"
    /\ data_mutex' = "free"
    /\ ui_pc' = "paint"
    /\ UNCHANGED <<setup_vars, renderer_vars, tex, deleted, bind, data,
                   default_data, ui_focused, pc, renderer_mutex, sig, passes,
                   draws, uploads, acc_log, last, run, on_track, ray>>

\* lines 133-135: RaytracingApp::paint queues the callback
UpdateQueue ==
    /\ ui_pc = "paint"
    /\ pc = "ui"
    /\ pc' = "queued"
    /\ ui_pc' = "idle"
    /\ UNCHANGED <<setup_vars, renderer_vars, tex, deleted, bind, data,
                   default_data, ui_focused, mutex_vars, sig, passes,
                   draws, uploads, acc_log, last, run, on_track, ray>>

\* callback, line 126: raytracer_mutex.lock()
CallbackLockRenderer ==
    /\ pc = "queued"
    /\ renderer_mutex = "free"
    /\ renderer_mutex' = "callback"
    /\ pc' = "lock_data"
    /\ UNCHANGED <<setup_vars, renderer_vars, tex, deleted, bind, data,
                   default_data, ui_focused, data_mutex, ui_pc, sig, passes,
                   draws, uploads, acc_log, last, run, on_track, ray>>

\* a callback that goes on without the data guard
CallbackSkipLockData ==
    /\ pc = "lock_data"
    /\ pc' = "set_scr_size"
    /\ UNCHANGED <<setup_vars, renderer_vars, tex, deleted, bind, data,
                   default_data, ui_focused, mutex_vars, ui_pc, sig, passes,
                   draws, uploads, acc_log, last, run, on_track, ray>>

\* callback, line 127: data_mutex.lock()
CallbackLockData ==
    /\ pc = "lock_data"
    /\ data_mutex = "free"
    /\ data_mutex' = "callback"
    /\ pc' = "set_scr_size"
    /\ UNCHANGED <<setup_vars, renderer_vars, tex, deleted, bind, data,
                   default_data, ui_focused, renderer_mutex, ui_pc, sig,
                   passes, draws, uploads, acc_log, last, run, on_track, ray>>

\* a set_scr_size without the early return
must_resize_always(force, cur, new) == TRUE

\* Raytracer::set_scr_size: whether the early return is not taken
must_resize(force, cur, new) == force \/ cur # new

\* callback, line 131: Raytracer::set_scr_size
SetScrSize ==
    /\ pc = "set_scr_size"
    /\ \E new_scr_size \in Sizes \cup ZeroAreaSizes :
        IF must_resize(force_scr_size, scr_size, new_scr_size)
        THEN IF perspective_fov_asserts(new_scr_size)
             THEN \E fill \in UndefinedFills :
                    /\ scr_size' = new_scr_size
                    /\ data' = [data EXCEPT !.camera =
                                   camera_set_scr_size(@, new_scr_size)]
                    /\ frame_index' = 1
                    /\ tex' = realloc_textures(tex, new_scr_size, fill)
                    /\ bind' = realloc_textures_bind(bind)
                    /\ sig' = [sig EXCEPT
                                 !.resized = TRUE,
                                 !.request_equal = (new_scr_size = scr_size)]
                    /\ ray' = [ray EXCEPT !.stale = TRUE]
                    /\ on_track' = FALSE
                    /\ run' = <<>>
                    /\ pc' = "noise"
             \* Camera::set_scr_size has stored the size and recalc_proj
             \* panics in perspective_fov, lines 147 and 152
             ELSE /\ scr_size' = new_scr_size
                  /\ data' = [data EXCEPT !.camera.scr_size = new_scr_size]
                  /\ sig' = [sig EXCEPT
                               !.request_equal = (new_scr_size = scr_size)]
                  /\ pc' = "panicked"
                  /\ UNCHANGED <<frame_index, tex, bind, on_track, run, ray>>
        ELSE /\ sig' = [sig EXCEPT
                          !.request_equal = (new_scr_size = scr_size)]
             /\ pc' = "noise"
             /\ UNCHANGED <<scr_size, data, frame_index, tex, bind, on_track,
                            run, ray>>
    /\ force_scr_size' = FALSE
    /\ UNCHANGED <<setup_vars, mutex_vars, ui_pc, first_frame,
                   rendering_to_texture_0, deleted, default_data, ui_focused,
                   passes, draws, uploads, acc_log, last>>

\* a noise pass that is left out while the accumulate setting is off
NoisePassWhenAccumulating ==
    /\ pc = "noise"
    /\ IF data.settings.accumulate
       THEN /\ tex' = [tex EXCEPT ![NoiseWrite(rendering_to_texture_0)] =
                         [@ EXCEPT !.kind = "noise", !.src = <<>>]]
            /\ bind' = noise_unbind(noise_bind(bind, rendering_to_texture_0))
            /\ passes' = Append(passes, "noise")
            /\ draws' = Append(draws,
                           Draw("noise",
                                noise_bind(bind, rendering_to_texture_0),
                                NoiseSamplers))
       ELSE UNCHANGED <<tex, bind, passes, draws>>
    /\ pc' = "accumulation"
    /\ UNCHANGED <<setup_vars, mutex_vars, ui_pc, ray, renderer_vars, deleted,
                   data, default_data, ui_focused, sig, uploads, acc_log,
                   last, run, on_track>>

\* Raytracer::paint, lines 420-462: the noise pass
NoisePass ==
    /\ pc = "noise"
    /\ tex' = [tex EXCEPT ![NoiseWrite(rendering_to_texture_0)] =
                  [@ EXCEPT !.kind = "noise", !.src = <<>>]]
    /\ bind' = noise_unbind(noise_bind(bind, rendering_to_texture_0))
    /\ passes' = Append(passes, "noise")
    /\ draws' = Append(draws,
                   Draw("noise", noise_bind(bind, rendering_to_texture_0),
                        NoiseSamplers))
    /\ pc' = "accumulation"
    /\ UNCHANGED <<setup_vars, mutex_vars, ui_pc, ray, renderer_vars, deleted,
                   data, default_data, ui_focused, sig, uploads, acc_log,
                   last, run, on_track>>

\* Raytracer::paint, lines 464-530: the accumulation pass
AccumulationPass ==
    /\ pc = "accumulation"
    /\ uploads' = apply_uniforms(first_frame, data)
                      \cup sampler_uniforms(first_frame)
    /\ tex' = [tex EXCEPT ![AccumWrite(rendering_to_texture_0)] =
                  [@ EXCEPT !.kind = "acc", !.src = <<frame_index>>]]
    /\ acc_log' = [ran |-> TRUE, fi |-> frame_index,
                   r0 |-> rendering_to_texture_0,
                   read |-> tex[AccumRead(rendering_to_texture_0)].kind,
                   target |-> tex[AccumWrite(rendering_to_texture_0)].kind,
                   ray |-> tex["ray_dirs_texture"].kind]
    /\ run' = IF on_track
              THEN Append(run,
                       [fi |-> frame_index,
                        read |-> tex[AccumRead(rendering_to_texture_0)].kind])
              ELSE run
    /\ bind' = accumulation_unbind(
                  accumulation_bind(bind, rendering_to_texture_0))
    /\ passes' = Append(passes, "accumulation")
    /\ draws' = Append(draws,
                   Draw("accumulation",
                        accumulation_bind(bind, rendering_to_texture_0),
                        AccumulationSamplers))
    /\ pc' = "final"
    /\ UNCHANGED <<setup_vars, mutex_vars, ui_pc, ray, renderer_vars, deleted,
                   data, default_data, ui_focused, sig, last, on_track>>

\* a counter of one bit
next_frame_index_one_bit(fi) == (fi + 1) % 2

\* Raytracer::paint, line 572: self.frame_index += 1
next_frame_index(fi) == (fi + 1) % FrameIndexModulus

\* Raytracer::paint, lines 532-573: the post-process pass and the frame's
\* bookkeeping
FinalPass ==
    /\ pc = "final"
    /\ bind' = final_unbind(final_bind(bind, rendering_to_texture_0))
    /\ passes' = Append(passes, "final")
    /\ draws' = Append(draws,
                   Draw("final", final_bind(bind, rendering_to_texture_0),
                        FinalSamplers))
    /\ first_frame' = FALSE
    /\ frame_index' = next_frame_index(frame_index)
    /\ rendering_to_texture_0' = ~rendering_to_texture_0
    /\ pc' = "camera"
    /\ UNCHANGED <<setup_vars, mutex_vars, ui_pc, ray, scr_size,
                   force_scr_size, tex, deleted, data, default_data,
                   ui_focused, sig, uploads, acc_log, last, run, on_track>>

\* the camera update without the test of lock_camera
CameraStepIgnoringLock ==
    /\ pc = "camera"
    /\ \E input \in Inputs :
        LET c1 == set_fov(data.camera, data.settings.fov)
            upd == IF ~ui_focused
                   THEN camera_update(c1, input)
                   ELSE [camera |-> c1, moved |-> FALSE]
            tex1 == IF upd.moved THEN clear_textures(tex) ELSE tex
            bind1 == IF upd.moved THEN clear_textures_bind(bind)
                     ELSE bind
            recalc == upd.camera.recalculate_ray_dirs
        IN  /\ frame_index' = IF upd.moved THEN 1 ELSE frame_index
            /\ tex' = IF recalc
                      THEN calculate_ray_dirs(tex1, upd.camera, scr_size)
                      ELSE tex1
            /\ bind' = IF recalc
                       THEN ray_dirs_unbind(ray_dirs_bind(bind1))
                       ELSE bind1
            /\ draws' = IF recalc
                        THEN Append(draws,
                                 Draw("ray_dirs", ray_dirs_bind(bind1),
                                      RayDirsSamplers))
                        ELSE draws
            /\ data' = [data EXCEPT !.camera =
                          [upd.camera EXCEPT
                              !.recalculate_ray_dirs = FALSE]]
            /\ passes' = IF recalc THEN Append(passes, "ray_dirs")
                         ELSE passes
            /\ uploads' = IF recalc THEN uploads \cup ray_dirs_uniforms
                          ELSE uploads
            /\ sig' = [sig EXCEPT !.camera = upd.moved]
            /\ LET due == \/ ray.stale
                          \/ matrices(upd.camera) # matrices(data.camera)
               IN  ray' = [stale |-> due /\ ~recalc, ran |-> recalc,
                           due |-> due]
    /\ pc' = "invalidate"
    /\ UNCHANGED <<setup_vars, mutex_vars, ui_pc, scr_size, first_frame,
                   rendering_to_texture_0, force_scr_size, deleted,
                   default_data, ui_focused, acc_log, last, run, on_track>>

\* callback, lines 135-149: the camera update, skipped while lock_camera
CameraStep ==
    /\ pc = "camera"
    /\ \E input \in Inputs :
        IF ~data.settings.lock_camera
        THEN LET c1 == set_fov(data.camera, data.settings.fov)
                 upd == IF ~ui_focused
                        THEN camera_update(c1, input)
                        ELSE [camera |-> c1, moved |-> FALSE]
                 tex1 == IF upd.moved THEN clear_textures(tex) ELSE tex
                 bind1 == IF upd.moved THEN clear_textures_bind(bind)
                          ELSE bind
                 recalc == upd.camera.recalculate_ray_dirs
             IN  /\ frame_index' = IF upd.moved THEN 1 ELSE frame_index
                 /\ tex' = IF recalc
                           THEN calculate_ray_dirs(tex1, upd.camera, scr_size)
                           ELSE tex1
                 /\ bind' = IF recalc
                            THEN ray_dirs_unbind(ray_dirs_bind(bind1))
                            ELSE bind1
                 /\ draws' = IF recalc
                             THEN Append(draws,
                                      Draw("ray_dirs", ray_dirs_bind(bind1),
                                           RayDirsSamplers))
                             ELSE draws
                 /\ data' = [data EXCEPT !.camera =
                               [upd.camera EXCEPT
                                   !.recalculate_ray_dirs = FALSE]]
                 /\ passes' = IF recalc THEN Append(passes, "ray_dirs")
                              ELSE passes
                 /\ uploads' = IF recalc THEN uploads \cup ray_dirs_uniforms
                               ELSE uploads
                 /\ sig' = [sig EXCEPT !.camera = upd.moved]
                 /\ LET due == \/ ray.stale
                               \/ matrices(upd.camera) # matrices(data.camera)
                    IN  ray' = [stale |-> due /\ ~recalc, ran |-> recalc,
                                due |-> due]
        ELSE /\ ray' = [ray EXCEPT !.ran = FALSE, !.due = ray.stale]
             /\ sig' = [sig EXCEPT !.ignored_input = (input # "none")]
             /\ UNCHANGED <<frame_index, tex, bind, data, passes, draws,
                            uploads>>
    /\ pc' = "invalidate"
    /\ UNCHANGED <<setup_vars, mutex_vars, ui_pc, scr_size, first_frame,
                   rendering_to_texture_0, force_scr_size, deleted,
                   default_data, ui_focused, acc_log, last, run, on_track>>

\* callback, lines 151-157: invalidation and the reset of the change flags
Invalidate ==
    /\ pc = "invalidate"
    /\ IF data.settings.response.changed \/ data.scene.response.changed
       THEN /\ frame_index' = 1
            /\ tex' = clear_textures(tex)
            /\ bind' = clear_textures_bind(bind)
       ELSE UNCHANGED <<frame_index, tex, bind>>
    /\ data' = [data EXCEPT
                  !.settings.response = Reset(@, SettingsResponseDefault),
                  !.scene.response = Reset(@, SceneResponseDefault)]
    /\ last' = [valid |-> TRUE, first |-> ~last.valid,
                signalled |-> AnySig(sig),
                fi |-> acc_log.fi, r0 |-> acc_log.r0,
                ray |-> ray.ran, resized |-> sig.resized,
                noise_target |-> TargetOf(draws, "noise"),
                acc_target |-> TargetOf(draws, "accumulation")]
    /\ on_track' = (on_track /\ (Len(run) = 11 \/ ~sig.camera))
    /\ run' = IF on_track' THEN run ELSE <<>>
    /\ sig' = NoSig
    /\ acc_log' = NoLog
    /\ uploads' = {}
    /\ passes' = <<>>
    /\ draws' = <<>>
    /\ ray' = [ray EXCEPT !.ran = FALSE, !.due = FALSE]
    /\ ui_focused' = FALSE
    /\ data_mutex' = "free"
    /\ renderer_mutex' = "free"
    /\ pc' = "ui"
    /\ UNCHANGED <<setup_vars, ui_pc, scr_size, first_frame,
                   rendering_to_texture_0, force_scr_size, deleted,
                   default_data>>

\* RaytracingApp::on_exit: Raytracer::destroy
OnExit ==
    /\ pc = "ui"
    /\ ui_pc = "idle"
    /\ renderer_mutex = "free"
    /\ deleted' = [o \in GlObjects |->
                      IF o \in DestroyList THEN deleted[o] + 1 ELSE deleted[o]]
    /\ pc' = "exited"
    /\ UNCHANGED <<setup_vars, mutex_vars, ui_pc, ray, renderer_vars, tex,
                   bind, data, default_data, ui_focused, sig, passes, draws,
                   uploads, acc_log, last, run, on_track>>

Next ==
    \/ Update
    \/ CallbackLockRenderer
    \/ CallbackLockData
    \/ SetScrSize
    \/ NoisePass
    \/ AccumulationPass
    \/ FinalPass
    \/ CameraStep
    \/ Invalidate
    \/ OnExit

Spec == Init /\ [][Next]_vars

\* update() and the paint callback as two actors that share the mutexes
ThreadedNext ==
    \/ UpdateStart
    \/ UpdateLockData
    \/ UpdateReadFrameIndex
    \/ UpdateRespond
    \/ UpdateSaveLock
    \/ UpdateSaveDone
    \/ UpdateQueue
    \/ CallbackLockRenderer
    \/ CallbackLockData
    \/ SetScrSize
    \/ NoisePass
    \/ AccumulationPass
    \/ FinalPass
    \/ CameraStep
    \/ Invalidate
    \/ OnExit

ThreadedSpec == Init /\ [][ThreadedNext]_vars

\* ------------------------------------------------------------ Raytracer::new
\* The application has built its PersistentData and calls Raytracer::new,
\* lines 167-296: the fields hold the values of lines 283-290, no texture
\* has an image.
NewInit ==
    \E size \in Sizes, d \in Drivers :
        /\ driver = d
        /\ built = NotBuilt
        /\ sun = NoSun
        /\ scene = new_object(EmptyScene)
        /\ scene_block = NoSceneBlock
        /\ scr_size = size
        /\ first_frame = TRUE
        /\ rendering_to_texture_0 = TRUE
        /\ frame_index = 1
        /\ force_scr_size = FALSE
        /\ tex = [n \in TexNames |-> Unallocated]
        /\ deleted = [o \in GlObjects |-> 0]
        /\ bind = BindEmpty
        /\ data = PersistentDataNew(size)
        /\ default_data = PersistentDataNew(size)
        /\ ui_focused = FALSE
        /\ pc = "compile_shaders"
        /\ data_mutex = "free"
        /\ renderer_mutex = "free"
        /\ ui_pc = "idle"
        /\ sig = NoSig
        /\ passes = <<>>
        /\ draws = <<>>
        /\ uploads = {}
        /\ acc_log = NoLog
        /\ last = NoFrame
        /\ run = <<>>
        /\ on_track = TRUE
        /\ ray = NoRay

\* lines 170-191: the four programs, compile_shaders for each in turn
NewPrograms ==
    /\ pc = "compile_shaders"
    /\ LET failing == {i \in DOMAIN Programs :
                          ~compile_shaders(driver.shader[Programs[i]])}
           n == IF failing = {} THEN Len(Programs)
                ELSE CHOOSE i \in failing : \A j \in failing : i <= j
       IN  /\ built' = [built EXCEPT
                          !.compiled = SubSeq(Programs, 1, n),
                          !.linked = {Programs[i] : i \in
                                         {j \in 1..n :
                                            driver.shader[Programs[j]] = "ok"}}]
           /\ pc' = IF failing = {} THEN "ray_dirs_fbo" ELSE "panicked"
    /\ UNCHANGED <<driver, sun, scene, scene_block, renderer_vars, tex, deleted, bind, data,
                   default_data, ui_focused, mutex_vars, ui_pc, sig, passes,
                   draws, uploads, acc_log, last, run, on_track, ray>>

\* lines 194-210: the ray-direction framebuffer and its texture
NewRayDirsFbo ==
    /\ pc = "ray_dirs_fbo"
    /\ \E fill \in UndefinedFills :
          tex' = [tex EXCEPT !["ray_dirs_texture"] =
                     screen_sized_texture(scr_size, fill)]
    /\ LET b1 == bind_framebuffer(bind_texture(bind, "ray_dirs_texture"),
                                  "ray_dirs_fbo")
           b2 == framebuffer_texture(b1, "ray_dirs_texture")
           b3 == bind_framebuffer(bind_texture(b2, "none"), "none")
       IN  /\ bind' = b3
           /\ built' = [built EXCEPT !.validated = @ \cup {b3.framebuffer}]
           /\ pc' = IF check_framebuffer_status(driver, b3)
                    THEN "noise_fbo" ELSE "panicked"
    /\ UNCHANGED <<driver, sun, scene, scene_block, renderer_vars, deleted, data, default_data,
                   ui_focused, mutex_vars, ui_pc, sig, passes, draws, uploads,
                   acc_log, last, run, on_track, ray>>

\* lines 212-233: the noise framebuffer and its two textures
NewNoiseFbo ==
    /\ pc = "noise_fbo"
    /\ \E fill \in UndefinedFills :
          tex' = [tex EXCEPT
                    !["noise_texture_0"] = screen_sized_texture(scr_size, fill),
                    !["noise_texture_1"] = screen_sized_texture(scr_size, fill)]
    /\ LET b1 == bind_texture(bind_texture(bind, "noise_texture_0"),
                              "noise_texture_1")
           b2 == framebuffer_texture(bind_framebuffer(b1, "noise_fbo"),
                                     "noise_texture_0")
           b3 == bind_framebuffer(bind_texture(b2, "none"), "none")
       IN  /\ bind' = b3
           /\ built' = [built EXCEPT !.validated = @ \cup {b3.framebuffer}]
           /\ pc' = IF check_framebuffer_status(driver, b3)
                    THEN "accumulation_fbo" ELSE "panicked"
    /\ UNCHANGED <<driver, sun, scene, scene_block, renderer_vars, deleted, data, default_data,
                   ui_focused, mutex_vars, ui_pc, sig, passes, draws, uploads,
                   acc_log, last, run, on_track, ray>>

\* lines 235-258: the accumulation framebuffer and its two textures
NewAccumulationFbo ==
    /\ pc = "accumulation_fbo"
    /\ \E fill \in UndefinedFills :
          tex' = [tex EXCEPT
                    !["accumulation_texture_0"] =
                        screen_sized_texture(scr_size, fill),
                    !["accumulation_texture_1"] =
                        screen_sized_texture(scr_size, fill)]
    /\ LET b1 == bind_texture(bind_texture(bind, "accumulation_texture_0"),
                              "accumulation_texture_1")
           b2 == framebuffer_texture(bind_framebuffer(b1, "accumulation_fbo"),
                                     "accumulation_texture_0")
           b3 == bind_framebuffer(bind_texture(b2, "none"), "none")
       IN  /\ bind' = b3
           /\ built' = [built EXCEPT !.validated = @ \cup {b3.framebuffer}]
           /\ pc' = IF check_framebuffer_status(driver, b3)
                    THEN "finish" ELSE "panicked"
    /\ UNCHANGED <<driver, sun, scene, scene_block, renderer_vars, deleted, data, default_data,
                   ui_focused, mutex_vars, ui_pc, sig, passes, draws, uploads,
                   acc_log, last, run, on_track, ray>>

\* lines 260-295: clear_fbo, the struct, and the initial ray-direction pass
NewFinish ==
    /\ pc = "finish"
    /\ tex' = calculate_ray_dirs(tex, data.camera, scr_size)
    /\ bind' = ray_dirs_unbind(ray_dirs_bind(bind))
    /\ passes' = <<"ray_dirs">>
    /\ draws' = <<Draw("ray_dirs", ray_dirs_bind(bind), RayDirsSamplers)>>
    /\ uploads' = ray_dirs_uniforms
    /\ pc' = "ui"
    /\ UNCHANGED <<setup_vars, renderer_vars, deleted, data, default_data,
                   ui_focused, mutex_vars, ui_pc, sig, acc_log, last, run,
                   on_track, ray>>

ConstructionNext ==
    \/ NewPrograms
    \/ NewRayDirsFbo
    \/ NewNoiseFbo
    \/ NewAccumulationFbo
    \/ NewFinish

ConstructionSpec == NewInit /\ [][ConstructionNext]_vars

\* -------------------------------------------------------------- sun_dir
\* The sun angles of the settings window and the upload of sun_dir.
SunInit ==
    /\ AppNew(<<SubPx, SubPx>>, "zero")
    /\ pc = "ui"
    /\ sun = NoSun

\* settings.rs 176-185: the two drag_angle widgets
SunWindow ==
    /\ \E rotation \in EighthTurns, elevation \in EighthTurns :
          sun' = [sun EXCEPT !.rotation = rotation, !.elevation = elevation]
    /\ UNCHANGED <<driver, built, scene, scene_block, renderer_vars, tex, deleted, bind, data,
                   default_data, ui_focused, pc, mutex_vars, ui_pc, sig,
                   passes, draws, uploads, acc_log, last, run, on_track, ray>>

\* apply_uniforms, lines 705-716
UploadSunDir ==
    /\ sun' = [sun EXCEPT !.upload =
                  [done |-> TRUE, rotation |-> sun.rotation,
                   elevation |-> sun.elevation,
                   dir |-> sun_dir(sun.rotation, sun.elevation)]]
    /\ UNCHANGED <<driver, built, scene, scene_block, renderer_vars, tex, deleted, bind, data,
                   default_data, ui_focused, pc, mutex_vars, ui_pc, sig,
                   passes, draws, uploads, acc_log, last, run, on_track, ray>>

SunNext ==
    \/ SunWindow
    \/ UploadSunDir

SunSpec == SunInit /\ [][SunNext]_vars

\* ---------------------------------------------------------- the scene window
SceneInit ==
    /\ AppNew(<<SubPx, SubPx>>, "zero")
    /\ pc = "ui"
    /\ sun = NoSun

\* app.rs 105: the scene window in update().  A duplicate whose name would
\* carry more than MaxNameCopies suffixes is not taken.
SceneWindowPass ==
    /\ pc = "ui"
    /\ \E op \in SceneOps, i \in 0..(MaxObjects - 1), new_name \in Names,
          has_focus \in BOOLEAN :
          /\ SceneOpShown(scene, op)
          \* what an event does not read is not varied
          /\ IF op = "select" THEN i < len(scene) ELSE i = 0
          /\ op # "rename_confirm" => new_name = 0
          /\ op \notin {"select", "rename_confirm", "transform", "material"}
                 => ~has_focus
          /\ (op = "duplicate" /\ len(scene) < MaxObjects)
                 => scene.arrays["name"][scene.selected + 1] < MaxNameCopies
          /\ scene' = SceneObjectsWindow(scene, op, i, new_name, has_focus)
    /\ pc' = "queued"
    /\ UNCHANGED <<driver, built, sun, scene_block, renderer_vars, tex,
                   deleted, bind, data, default_data, ui_focused, mutex_vars,
                   ui_pc, sig, passes, draws, uploads, acc_log, last, run,
                   on_track, ray>>

\* the scene's part of the frame: the scene block of apply_uniforms
\* (render.rs 600-685) and the reset of the response (render.rs 157)
UploadScene ==
    /\ pc = "queued"
    /\ IF \E a \in UploadedArrays : fill_50_panics(scene.arrays[a])
       THEN /\ pc' = "panicked"
            /\ UNCHANGED <<scene, scene_block, first_frame>>
       ELSE /\ scene_block' =
                   IF first_frame \/ scene.response.changed
                   THEN [scene_selected |-> scene.selected,
                         scene_size |-> len(scene),
                         arrays |-> [a \in UploadedArrays |->
                                        fill_50(scene.arrays[a])]]
                   ELSE scene_block
            /\ scene' = [scene EXCEPT
                            !.response = Reset(@, SceneResponseDefault)]
            /\ first_frame' = FALSE
            /\ pc' = "ui"
    /\ UNCHANGED <<driver, built, sun, scr_size, rendering_to_texture_0,
                   frame_index, force_scr_size, tex, deleted, bind, data,
                   default_data, ui_focused, mutex_vars, ui_pc, sig, passes,
                   draws, uploads, acc_log, last, run, on_track, ray>>

SceneNext ==
    \/ SceneWindowPass
    \/ UploadScene

SceneSpec == SceneInit /\ [][SceneNext]_vars
\* ------------------------------------------------------------------ claims
\* The observation variables: sig holds the change signals raised so far in
\* the current frame (scene and settings edits of the UI pass, a resize in
\* set_scr_size, a camera move in the camera update) and whether the size
\* requested of set_scr_size was the current one; last describes the
\* previous frame (first: it was the first frame; signalled: it raised a
\* change signal); acc_log describes the accumulation pass of the current
\* frame once it has run.

\* C1: across two consecutive frames with no change signal, the frame_index
\* used by the accumulation pass grows by exactly one and the ping-pong
\* parity is negated.
C1_FrameIndexAdvances ==
    (acc_log.ran /\ Quiet(last) /\ ~AnySig(sig))
        => /\ acc_log.fi = last.fi + 1
           /\ acc_log.r0 = ~last.r0

\* C2: construction, ten frames without a signal, then a scene change and
\* one more frame: the eleven accumulation passes ran with frame_index
\* 1, 2, ..., 10, 1 and the eleventh sampled a cleared accumulation texture.
C2_EndToEnd ==
    (on_track /\ Len(run) = 11)
        => /\ \A i \in 1..10 : run[i].fi = i
           /\ run[11].fi = 1
           /\ run[11].read = "zero"

\* C3: when a change signal is true in a frame, that frame's accumulation
\* pass runs with frame_index = 1 and with both accumulation textures
\* cleared beforehand.
C3_ClearedBeforeAccumulation ==
    (acc_log.ran /\ (sig.scene \/ sig.settings \/ sig.resized))
        => /\ acc_log.fi = 1
           /\ acc_log.read = "zero"
           /\ acc_log.target = "zero"

\* C4: once a frame with a change signal has finished, frame_index is 1 and
\* both accumulation textures are all-zero, and they stay so until the next
\* accumulation pass draws.
C4_ClearedUntilNextSample ==
    (last.valid /\ last.signalled
     /\ pc \in {"ui", "queued", "lock_data", "set_scr_size", "noise",
                "accumulation"})
        => /\ frame_index = 1
           /\ tex["accumulation_texture_0"].kind = "zero"
           /\ tex["accumulation_texture_1"].kind = "zero"

C6_RayDirsComputedBeforeAccumulation ==
    acc_log.ran => acc_log.ray = "dirs"

\* C7: within a frame the ray-direction pass, when it runs, precedes the
\* noise and accumulation passes, and noise precedes accumulation, which
\* precedes post-process.
C7_PassOrder ==
    \A i, j \in 1..Len(passes) :
        /\ (passes[i] = "ray_dirs" /\ passes[j] \in {"noise", "accumulation"})
               => i < j
        /\ (passes[i] = "noise" /\ passes[j] = "accumulation") => i < j
        /\ (passes[i] = "accumulation" /\ passes[j] = "final") => i < j

\* C8: the scene block is uploaded by the accumulation pass of the first
\* frame and of every frame in which the scene was changed, and of no other.
C8_SceneUploadOnlyOnChange ==
    acc_log.ran => (("scene" \in uploads) <=> (~last.valid \/ sig.scene))

\* C9: the world/settings block is uploaded by the accumulation pass of the
\* first frame and of every frame in which the settings were changed, and of
\* no other.
C9_SettingsUploadOnlyOnChange ==
    acc_log.ran => (("world" \in uploads) <=> (~last.valid \/ sig.settings))

\* C10: after destroy every GPU object created by Raytracer::new has been
\* deleted exactly once.
C10_DestroyReleasesAll ==
    pc = "exited" => \A o \in GlObjects : deleted[o] = 1

\* C11: at the draw call of the noise pass and of the accumulation pass, for
\* either parity, the texture attached to the bound framebuffer is none of
\* the textures the pass samples.
C11_NoFeedback ==
    \A i \in 1..Len(draws) :
        draws[i].pass \in {"noise", "accumulation"}
            => /\ draws[i].target \in TexNames
               /\ draws[i].sampled # {}
               /\ draws[i].target \notin draws[i].sampled

\* C11 witness: both passes have drawn in a frame of the second parity that
\* follows a frame of the first.
C11_Witness ==
    /\ pc = "final"
    /\ ~rendering_to_texture_0
    /\ last.valid
    /\ Len(draws) = 2

\* C12: when Raytracer::paint has returned, the noise pass, the accumulation
\* pass and the post-process pass have each run exactly once in the frame,
\* whatever the change signals, lock_camera and accumulate.
C12_EveryPassOnce ==
    pc \in {"camera", "invalidate"}
        => \A p \in {"noise", "accumulation", "final"} :
               Cardinality({i \in 1..Len(passes) : passes[i] = p}) = 1

\* C12 witness: a frame with a change signal, the camera locked and
\* accumulate off has run its passes.
C12_Witness ==
    /\ pc = "invalidate"
    /\ data.settings.lock_camera
    /\ ~data.settings.accumulate
    /\ sig.scene
    /\ sig.resized


\* C13: the ray-direction pass runs exactly once at construction, and in a
\* frame it runs if and only if the screen was resized or a matrix of the
\* camera changed since the pass last ran.
C13_RayDirsPassWhenDue ==
    /\ (pc = "ui" /\ ~last.valid) => passes = <<"ray_dirs">>
    /\ pc = "invalidate"
           => /\ ray.ran <=> ray.due
              /\ ray.ran <=> (\E i \in 1..Len(passes) : passes[i] = "ray_dirs")


\* C14: when a frame's callback has returned, the changed flags of Settings
\* and Scene are both false.
C14_ChangedFlagsCleared ==
    (pc = "ui" /\ last.valid)
        => /\ ~data.settings.response.changed
           /\ ~data.scene.response.changed

\* C15: when a frame's callback has returned, the camera's
\* recalculate_ray_dirs flag is false, also after a resize with lock_camera
\* set.
C15_RecalcFlagCleared ==
    (pc = "ui" /\ last.valid) => ~data.camera.recalculate_ray_dirs

\* C16: the first accumulation pass that samples ray directions recomputed
\* by the previous frame runs with frame_index = 1 and samples a cleared
\* accumulation texture.
C16_ResetAfterRayDirs ==
    (acc_log.ran /\ last.valid /\ last.ray /\ acc_log.ray = "dirs")
        => /\ acc_log.fi = 1
           /\ acc_log.read = "zero"

\* C16 witness: the accumulation pass samples ray directions that the
\* previous frame recomputed after a resize.
C16_Witness ==
    /\ acc_log.ran
    /\ last.valid
    /\ last.ray
    /\ last.resized
    /\ acc_log.ray = "dirs"


\* C17: in every step taken while the callback is between its resize check
\* and its flag reset, the callback holds the data mutex, and a step that is
\* not the callback's leaves the camera/scene/settings bundle as it is.
C17_DataLockedForFrame ==
    [][(pc \in CallbackBody)
          => ((data_mutex = "callback") /\ ((pc' = pc) => (data' = data)))]_vars

\* C17 witness: update() waits for the data mutex in the middle of a frame's
\* callback.
C17_Witness ==
    /\ pc = "camera"
    /\ ui_pc = "lock_data"
    /\ data_mutex = "callback"

\* C18: update() and the callback never each hold one of the two mutexes
\* while waiting for the other.
C18_NoDeadlock ==
    ~(/\ ui_pc = "lock_renderer"
      /\ data_mutex = "ui"
      /\ pc = "lock_data"
      /\ renderer_mutex = "callback")


\* C19: a set_scr_size whose requested size equals scr_size leaves scr_size,
\* frame_index, the ping-pong parity, every texture, the GL bindings and the
\* camera (projection and recalculate_ray_dirs included) unchanged.
C19_EqualSizeIsNoOp ==
    [][((pc = "set_scr_size") /\ sig'.request_equal)
          => ((scr_size' = scr_size) /\ (frame_index' = frame_index)
              /\ (rendering_to_texture_0' = rendering_to_texture_0)
              /\ (tex' = tex) /\ (bind' = bind)
              /\ (data'.camera = data.camera))]_vars

\* C19 witness: a frame after the first has passed set_scr_size with a
\* request for the current size.
C19_Witness ==
    /\ pc = "noise"
    /\ sig.request_equal
    /\ ~sig.resized
    /\ last.valid


\* C20: no step of the callback changes a value of the camera, the scene or
\* the settings; of the flags, a step may only clear the changed flags.
C20_FrameOnlyClearsFlags ==
    [][(pc \in CallbackBody)
          => ((SharedValues(data') = SharedValues(data))
              /\ (data'.settings.response.changed
                     => data.settings.response.changed)
              /\ (data'.scene.response.changed
                     => data.scene.response.changed))]_vars


\* C21: a constructed pipeline has read the status of each of its three
\* framebuffers (ray-direction, noise, accumulation), and each of them is
\* complete: construction aborts when one of them is incomplete.
C21_FramebuffersValidated ==
    pc = "ui"
        => \A f \in {"ray_dirs_fbo", "noise_fbo", "accumulation_fbo"} :
              f \in built.validated /\ driver.complete[f]

\* C22: when a shader does not compile or a program does not link,
\* construction aborts at that program and compiles nothing again; a
\* pipeline that went past compilation has its four programs linked.
C22_ShaderFailureAborts ==
    /\ (pc # "compile_shaders" /\ \E p \in ProgramSet : driver.shader[p] # "ok")
           => pc = "panicked"
    /\ pc \notin {"compile_shaders", "panicked"}
           => built.linked = ProgramSet /\ built.compiled = Programs
    /\ \A i \in DOMAIN built.compiled :
           /\ \A j \in DOMAIN built.compiled :
                  built.compiled[i] = built.compiled[j] => i = j
           /\ driver.shader[built.compiled[i]] # "ok"
                  => i = Len(built.compiled)

\* construction aborted at the third program, which did not link
C22_Witness ==
    /\ pc = "panicked"
    /\ driver.shader["program"] = "link_failed"
    /\ built.compiled = SubSeq(Programs, 1, 3)
    /\ built.linked = {"ray_dirs_program", "noise_program"}


\* C23: a resize to a clip rectangle without area does not panic:
\* set_scr_size returns and the frame goes on.
C23_ZeroAreaResizeCompletes ==
    ~(pc = "panicked" /\ (scr_size[1] = 0 \/ scr_size[2] = 0))


\* C24: first_frame is true from construction until the first frame's
\* Raytracer::paint has returned and false in every state after it, resizes
\* and invalidations included; the sampler uniforms guarded by first_frame
\* are uploaded by the first frame's accumulation pass and by no other.
C24_FirstFrameOnce ==
    /\ [](/\ first_frame <=> (~last.valid /\ pc \notin {"camera", "invalidate"})
          /\ acc_log.ran => (("samplers" \in uploads) <=> ~last.valid))
    /\ [][(~first_frame) => (~first_frame')]_vars

\* C24 witness: the accumulation pass of a later frame, one that resized,
\* has run without the sampler uniforms.
C24_Witness ==
    /\ acc_log.ran
    /\ last.valid
    /\ last.signalled
    /\ sig.resized
    /\ ~first_frame
    /\ "samplers" \notin uploads

\* C25: frame_index is at least 1 in every state, and every step leaves it
\* alone, adds exactly one to it (no wrap-around) or sets it to 1.
C25_FrameIndexPositive ==
    /\ [](frame_index >= 1)
    /\ [][frame_index' \in {frame_index, frame_index + 1, 1}]_vars

\* C25 witness: the tenth frame in a row without a change signal has
\* incremented frame_index.
C25_Witness ==
    /\ on_track
    /\ Len(run) = 10
    /\ pc = "camera"
    /\ frame_index = 2

\* C26: within a frame the accumulation pass samples the noise texture that
\* frame's noise pass drew to, and the post-process pass samples the
\* accumulation texture that frame's accumulation pass drew to.
C26_SameFrameHandOver ==
    \A i, j \in DOMAIN draws :
        /\ (draws[i].pass = "noise" /\ draws[j].pass = "accumulation")
               => draws[i].target \in draws[j].sampled
        /\ (draws[i].pass = "accumulation" /\ draws[j].pass = "final")
               => draws[j].sampled = {draws[i].target}

\* C26 witness: the three passes of a frame of the second parity have drawn.
C26_Witness ==
    /\ pc = "camera"
    /\ Len(draws) = 3
    /\ draws[1].target = "noise_texture_1"
    /\ draws[2].target = "accumulation_texture_1"
    /\ draws[3].sampled = {"accumulation_texture_1"}

\* C27: every accumulation pass uploads scr_size, frame_index, the camera
\* position and the camera direction to the main program, and inv_proj and
\* inv_view are uploaded in a frame (or at construction) exactly when the
\* ray-direction pass runs in it.
C27_UniformTiers ==
    /\ acc_log.ran => {"common", "camera"} \subseteq uploads
    /\ ({"inv_proj", "inv_view"} \cap uploads # {})
           <=> (\E i \in DOMAIN passes : passes[i] = "ray_dirs")
    /\ ({"inv_proj", "inv_view"} \cap uploads # {})
           => {"inv_proj", "inv_view"} \subseteq uploads

\* C27 witness: a later frame whose ray-direction pass ran after its
\* accumulation pass had uploaded the per-frame uniforms.
C27_Witness ==
    /\ pc = "invalidate"
    /\ last.valid
    /\ ray.ran
    /\ {"common", "camera", "inv_proj", "inv_view"} \subseteq uploads

\* C28: the uploaded sun_dir is (cos(rotation) cos(elevation),
\* sin(elevation), sin(rotation) cos(elevation)) with unit length, up to the
\* rounding of the arithmetic; it is (1, 0, 0) for rotation 0 and elevation
\* 0, and (0, 1, 0) for an elevation of a quarter turn.
C28_SunDir ==
    sun.upload.done
        => LET r == sun.upload.rotation
               el == sun.upload.elevation
               d == sun.upload.dir
               near(a, b) == a - b \in -2..2
               len2 == d[1] * d[1] + d[2] * d[2] + d[3] * d[3]
           IN  /\ near(d[1], fmul(cos(r), cos(el)))
               /\ near(d[2], sin(el))
               /\ near(d[3], fmul(sin(r), cos(el)))
               /\ (len2 - FixedOne * FixedOne) * 100
                     \in (0 - FixedOne * FixedOne)..(FixedOne * FixedOne)
               /\ (r = 0 /\ el = 0) => d = <<FixedOne, 0, 0>>
               /\ el = 2 => d = <<0, FixedOne, 0>>

\* C28 witness: sun_dir was uploaded for a quarter-turn elevation and a
\* rotation that is not zero.
C28_Witness ==
    /\ sun.upload.done
    /\ sun.upload.elevation = 2
    /\ sun.upload.rotation = 3

\* C29: in a frame that follows a frame without a change signal and has
\* raised none itself, the noise pass samples the texture the previous
\* frame's noise pass drew to, and the accumulation pass samples the
\* texture the previous frame's accumulation pass drew to.
C29_RolesSwap ==
    (last.valid /\ ~last.signalled /\ ~AnySig(sig))
        => \A i \in DOMAIN draws :
              /\ draws[i].pass = "noise"
                     => draws[i].sampled = {last.noise_target}
              /\ draws[i].pass = "accumulation"
                     => /\ last.acc_target \in draws[i].sampled
                        /\ last.acc_target # draws[i].target
                        /\ last.noise_target \notin draws[i].sampled

\* C29 witness: the noise and accumulation passes of such a frame have
\* drawn.
C29_Witness ==
    /\ last.valid
    /\ ~last.signalled
    /\ ~AnySig(sig)
    /\ pc = "final"
    /\ Len(draws) = 2
    /\ last.noise_target = "noise_texture_1"

\* C30: clear_textures zeroes the two noise and the two accumulation
\* textures and leaves their sizes, the ray-direction texture, scr_size,
\* first_frame and the ping-pong parity unchanged.
C30_ClearTextures ==
    [][((pc = "invalidate")
        /\ (data.settings.response.changed \/ data.scene.response.changed))
          => ((\A n \in TexNames \ {"ray_dirs_texture"} :
                   (tex'[n].kind = "zero") /\ (tex'[n].dims = tex[n].dims))
              /\ (tex'["ray_dirs_texture"] = tex["ray_dirs_texture"])
              /\ (scr_size' = scr_size)
              /\ (first_frame' = first_frame)
              /\ (rendering_to_texture_0' = rendering_to_texture_0))]_vars

\* C30 witness: a frame has ended with clear_textures: the four textures
\* are zero and the ray-direction texture holds its directions.
C30_Witness ==
    /\ pc = "ui"
    /\ last.valid
    /\ \A n \in TexNames \ {"ray_dirs_texture"} : tex[n].kind = "zero"
    /\ tex["ray_dirs_texture"].kind = "dirs"
    /\ ~first_frame
    /\ ~rendering_to_texture_0


\* C31: after any sequence of new_object, duplicate_object and
\* delete_object the scene holds at most MaxObjects objects (the 50 of the
\* source), so that no slice given to fill_50 is longer than its array and
\* no upload panics; new_object and duplicate_object on a full scene leave
\* the arrays and the selection as they are.
C31_AtMostMaxObjects ==
    /\ [](/\ len(scene) <= MaxObjects
          /\ \A a \in ArrayNames : ~fill_50_panics(scene.arrays[a])
          /\ pc # "panicked"
          /\ scene_block.scene_size <= MaxObjects)
    /\ [][(len(scene) = MaxObjects /\ scene'.op \in {"new", "duplicate"})
              => (scene'.arrays = scene.arrays
                    /\ scene'.selected = scene.selected)]_vars

\* "New object" was clicked on a scene that was uploaded with the full
\* number of objects in the frame before
C31_Witness ==
    /\ pc = "queued"
    /\ scene.op = "new"
    /\ scene_block.scene_size = MaxObjects
    /\ len(scene) = MaxObjects

\* C32: after any sequence of new_object, duplicate_object and
\* delete_object every per-object array of the scene has the length len().
C32_ArraysSameLength ==
    \A a \in ArrayNames : Len(scene.arrays[a]) = len(scene)

\* an object was deleted from a full scene that holds a copy or a renamed
\* object
C32_Witness ==
    /\ pc = "queued"
    /\ scene.op = "delete_confirm"
    /\ len(scene) = MaxObjects - 1
    /\ \E i \in 1..len(scene) : scene.arrays["name"][i] > 0

\* C33: whenever the scene has objects, selected is the index of one of
\* them; new_object and duplicate_object select the object they append;
\* delete_object on an empty scene changes nothing.
C33_SelectedInRange ==
    /\ [](/\ len(scene) > 0 => scene.selected \in 0..(len(scene) - 1)
          /\ len(scene) = 0 => delete_object(scene) = scene)
    /\ [][(scene'.op \in {"new", "duplicate"} /\ len(scene') > len(scene))
              => scene'.selected = len(scene') - 1]_vars

\* the last object of a full scene was selected and deleted
C33_Witness ==
    /\ pc = "queued"
    /\ scene.op = "delete_confirm"
    /\ len(scene) = MaxObjects - 1
    /\ scene.selected = MaxObjects - 2
    /\ scene_block.scene_size = MaxObjects
    /\ scene_block.scene_selected = MaxObjects - 1


\* C34: every pass of the scene window that changes the object arrays
\* (new, duplicate, delete, transform edit, material edit) calls
\* set_changed(true) in that pass.
C34_ArrayChangeRaisesChanged ==
    [][scene'.arrays # scene.arrays => scene'.raised]_vars

\* C38: a request for a new object on a full scene adds nothing and does
\* not call set_changed(true).
C38_FullSceneNewRaisesNothing ==
    [][(scene'.op = "new" /\ len(scene) = MaxObjects)
          => (scene'.arrays = scene.arrays /\ ~scene'.raised)]_vars


\* C35: while lock_camera is true a frame leaves the camera's position,
\* forward direction (the pose and the view matrices) and vertical FOV as
\* they are whatever input is held and whatever FOV the settings ask for,
\* does not run the ray-direction pass, and its camera step neither resets
\* frame_index nor clears a texture.
C35_LockedCameraIgnoresInput ==
    /\ []((pc = "invalidate" /\ data.settings.lock_camera)
             => (/\ ~ray.ran
                 /\ \A i \in DOMAIN passes : passes[i] # "ray_dirs"
                 /\ ~sig.camera))
    /\ [][(pc \in CallbackBody /\ data.settings.lock_camera)
             => (/\ data'.camera.pose = data.camera.pose
                 /\ data'.camera.vertical_fov = data.camera.vertical_fov
                 /\ data'.camera.view = data.camera.view
                 /\ data'.camera.inv_view = data.camera.inv_view
                 /\ (pc = "camera"
                       => (frame_index' = frame_index /\ tex' = tex)))]_vars

\* the camera step of a locked frame has run with a key held, no text
\* field focused and a FOV in the settings that the camera does not have
C35_Witness ==
    /\ pc = "invalidate"
    /\ data.settings.lock_camera
    /\ sig.ignored_input
    /\ ~ui_focused
    /\ data.settings.fov # data.camera.vertical_fov


\* C36: the frame after "clear all data" replaced the state bundle uploads
\* the scene and the settings blocks and ends in the invalidation; by the
\* end of its camera step the camera's screen size is the renderer's
\* scr_size and the ray-direction texture holds the directions of the
\* replaced camera's matrices at that size.
C36_ClearIsInvalidation ==
    (sig.cleared /\ pc = "invalidate")
        => (/\ {"scene", "world"} \subseteq uploads
            /\ data.settings.response.changed \/ data.scene.response.changed
            /\ data.camera.scr_size = scr_size
            /\ tex["ray_dirs_texture"].kind = "dirs"
            /\ tex["ray_dirs_texture"].src
                   = <<data.camera.inv_proj, data.camera.inv_view, scr_size>>)


\* C37: update() does not hold the data mutex when save() asks for it nor
\* when the paint callback is built: the guard taken at the start is
\* dropped before both on every path.
C37_GuardDroppedBeforeSave ==
    ui_pc \in {"save", "paint"} => data_mutex # "ui"

\* save() holds the data mutex after "Clear all data" replaced the bundle
C37_Witness ==
    /\ ui_pc = "saving"
    /\ data_mutex = "ui"
    /\ sig.cleared

=============================================================================
